---- MODULE Spec2Model ----
(***************************************************************************)
(* Stale-while-revalidate cache orchestration of gh-pr-explorer.           *)
(*                                                                         *)
(* The five cache domains (workflow runs, developer stats, contributor     *)
(* time series, code activity, PR lifecycle) share no state: each has its  *)
(* own SQLite table, its own in-progress set and its own lock              *)
(* (backend/extensions.py).  A behaviour of the program projected on one   *)
(* domain is a behaviour of that domain alone, so the model fixes the      *)
(* domain in Init (variable domain, never changed) and keeps one table and *)
(* one in-progress set; every domain is an initial state.                  *)
(*                                                                         *)
(* Threads: request handlers (bag reqs), background refresh threads (bag   *)
(* tasks, one record per threading.Thread started) and the startup warmer  *)
(* (record warmer).  A step is one database call, one lock section or one  *)
(* upstream fetch.                                                         *)
(***************************************************************************)
EXTENDS Integers, FiniteSets, Sequences, Bags, TLC

Domains == {"workflow", "stats", "contributor_ts", "activity", "lifecycle"}

\* Handlers of the same shape: get_cached, is_stale, lock section, fetch, save.
CommonDomains == {"workflow", "contributor_ts", "activity"}

\* Domains with a startup warmer (backend/__init__.py).
WarmedDomains == {"workflow", "stats"}

\* Domains whose table clear_cache empties (routes/cache_routes.py).
ClearedDomains == {"workflow", "contributor_ts", "activity"}

Keys == {"acme/widgets"}

\* The order in which get_all_repos returns the rows.
KeyOrder == <<"acme/widgets">>

\* One TTL period, in clock ticks.
TtlTicks == 1

\* Clock ticks the model lets pass after process start.
MaxTicks == 1

\* Distinct non-empty payloads the upstream can return.
MaxPayload == 1

\* Request handlers running at the same time.
MaxReqs == 2

\* Largest max_retries and retry_delay a caller of fetch_github_stats_api
\* passes.
MaxRetries == 3

MaxDelay == 2

\* The host's UTC offset is within MaxOffset hours, a TTL at most MaxTtl
\* hours, and the UTC clock of SpecHost runs from 0 to MaxUtc.
MaxOffset == 2

MaxTtl == 2

MaxUtc == 3

\* The upstream data of SpecRace goes through versions 0..MaxVersion.
MaxVersion == 3

\* At most MaxStarts start_review handlers run at a time, and at most
\* MaxProcs review subprocesses are started in a run of SpecReviews.
MaxStarts == 2

MaxProcs == 3

\* The merge queue of SpecQueue holds pull requests 1..MaxPRs and is
\* reordered with lists of at most MaxOrder items.
MaxPRs == 3

MaxOrder == 3

StartTime == TtlTicks + 1
MaxTime == StartTime + MaxTicks

\* Payload 0 is the fetcher's "no data" result of the domain ({"runs": [],
\* "workflows": [], "all_time_total": 0}, [] or None); 1..MaxPayload are data.
Payloads == 0..MaxPayload

Absent == [has |-> FALSE, data |-> 0, updated_at |-> 0]

Entry(p, u) == [has |-> TRUE, data |-> p, updated_at |-> u]

\* What the upstream does during one fetch: returns data, has nothing (or is
\* still computing when the retries run out), every gh command exits with
\* failure, or the gh executable is missing.
Upstream == {"ok", "empty", "cmd_fail", "gh_missing"}

\* The response: the HTTP status, the metadata and the payload served.
\* last_updated is what the frame holds (cached.updated_at, or last_updated
\* in get_developer_stats) and is not repeated here.
NoResp == [status |-> 0, cached |-> FALSE, stale |-> FALSE,
           refreshing |-> FALSE, payload |-> 0]

\* adapter is the frame of one call of fetch_github_stats_api and stores
\* holds the five tables side by side; the cache orchestration below (Spec)
\* leaves both as they are, SpecAdapter and SpecStores are about them.
\* fetcher is the frame of one call of a domain fetcher (SpecFetchers), host
\* the wall clocks a cache row is stamped and aged with (SpecHost), race two
\* writers of one row (SpecRace), reviews the review registry with its
\* handlers (SpecReviews) and queue the merge_queue table (SpecQueue).
VARIABLES domain, now, cache, in_progress, reqs, tasks, warmer, adapter, stores,
          fetcher, host, race, reviews, queue

vars == <<domain, now, cache, in_progress, reqs, tasks, warmer, adapter, stores,
          fetcher, host, race, reviews, queue>>

----------------------------------------------------------------------------
(* Cache store *)

\* get_cached: the row verbatim, or None.
get_cached(k) == cache[k]

\* A staleness test that counts an entry exactly one TTL old as stale.
is_stale_inclusive(k) ==
    IF ~cache[k].has THEN TRUE
    ELSE (now - cache[k].updated_at) >= TtlTicks

\* is_stale: no row, or age strictly above the TTL.
is_stale(k) ==
    IF ~cache[k].has THEN TRUE
    ELSE (now - cache[k].updated_at) > TtlTicks

\* A save that leaves updated_at to a column default of zero.
save_cache_epoch(k, p) ==
    IF domain = "stats" /\ p = 0 THEN cache
    ELSE [cache EXCEPT ![k] = Entry(p, 0)]

\* save_cache / save_stats: upsert, updated_at = CURRENT_TIMESTAMP.
\* DeveloperStatsDB.save_stats returns without writing for an empty list.
save_cache(k, p) ==
    IF domain = "stats" /\ p = 0 THEN cache
    ELSE [cache EXCEPT ![k] = Entry(p, now)]

\* get_all_repos: the keys that have a row.
RECURSIVE FilterRows(_)
FilterRows(s) ==
    IF s = <<>> THEN <<>>
    ELSE IF cache[Head(s)].has THEN <<Head(s)>> \o FilterRows(Tail(s))
    ELSE FilterRows(Tail(s))

get_all_repos == FilterRows(KeyOrder)

----------------------------------------------------------------------------
(* Fetchers *)

\* The result of the domain's fetcher under upstream condition u, v being
\* the data the upstream holds: [raised, data].
\*  - fetch_workflow_data and fetch_review_times_from_api catch RuntimeError
\*    around every gh call (run_gh_command turns a missing gh into
\*    RuntimeError) and return their empty result.
\*  - fetch_github_stats_api (contributor series, code activity, developer
\*    stats) calls subprocess.run directly: a failing command is retried and
\*    ends in [], a missing gh raises FileNotFoundError, which it does not
\*    catch.
Fetch(d, u, v) ==
    CASE u = "ok" -> [raised |-> FALSE, data |-> v]
      [] u = "empty" -> [raised |-> FALSE, data |-> 0]
      [] u = "cmd_fail" -> [raised |-> FALSE, data |-> 0]
      [] u = "gh_missing" ->
            IF d \in {"workflow", "lifecycle"}
            THEN [raised |-> FALSE, data |-> 0]
            ELSE [raised |-> TRUE, data |-> 0]

\* Whether a synchronous fetch of a request handler (forced, or with no
\* cache) saves its result p: get_workflow_runs saves whatever it fetched,
\* fetch_pr_review_times too; the three others test "if data:" /
\* "if stats_list:".
RequestSaves(d, p) ==
    IF d \in {"workflow", "lifecycle"} THEN TRUE ELSE p # 0

\* Whether a background refresh saves its result p:
\* _background_refresh_workflows saves whatever it fetched, the four others
\* test "if data:" / "if stats_list:".
BackgroundSaves(d, p) ==
    IF d = "workflow" THEN TRUE ELSE p # 0

\* The same for the startup warmer (workflow runs and developer stats).
StartupSaves(d, p) ==
    IF d = "workflow" THEN TRUE ELSE p # 0

----------------------------------------------------------------------------
(* Threads *)

\* FirstPc with refresh=true read by no handler.
FirstPc_ignores_refresh(d, f) ==
    IF d \in CommonDomains THEN "get_cached" ELSE "is_stale"

\* A request handler's frame.  ticket, launched, fetches and writes record
\* what the handler has done so far (inserted into the in-progress set,
\* started a thread, fetched from upstream, written the cache); failed
\* records that the gh calls of its fetch failed (command failure or gh
\* missing).
FirstPc(d, f) ==
    IF d \in CommonDomains
    THEN (IF f THEN "fetch" ELSE "get_cached")
    ELSE "is_stale"

NewRequest(k, f) ==
    [key |-> k, force |-> f, pc |-> FirstPc(domain, f),
     is_stale |-> FALSE, cached |-> Absent, last_updated |-> -1,
     refreshing |-> FALSE, data |-> 0, ticket |-> FALSE, launched |-> FALSE,
     fetches |-> 0, writes |-> 0, failed |-> FALSE, resp |-> NoResp]

\* A background refresh thread's frame, as threading.Thread(...).start()
\* creates it.  raised: the except clause has run.
NewTask(k) ==
    [key |-> k, pc |-> "fetch", data |-> 0, raised |-> FALSE]

IdleWarmer(pc) ==
    [pc |-> pc, todo |-> <<>>, key |-> "", data |-> 0, acquired |-> FALSE]

Requests == BagToSet(reqs)

Tasks == BagToSet(tasks)

ReqStep(t, u) == reqs' = (reqs (-) SetToBag({t})) (+) SetToBag({u})

TaskStep(t, u) == tasks' = (tasks (-) SetToBag({t})) (+) SetToBag({u})

Error500(t) == [t EXCEPT !.pc = "done", !.resp = [NoResp EXCEPT !.status = 500]]

\* get_last_updated: -1 stands for None.
LastUpdated(e) == IF e.has THEN e.updated_at ELSE -1

\* The response of the cached branch: the stored payload and its metadata.
CachedResponse(t, refreshing) ==
    [t EXCEPT !.pc = "done", !.refreshing = refreshing,
              !.resp = [status |-> 200, cached |-> TRUE, stale |-> t.is_stale,
                        refreshing |-> refreshing, payload |-> t.cached.data]]

\* The response after a synchronous fetch.
FetchedResponse(t) ==
    [t EXCEPT !.pc = "done",
              !.resp = [status |-> 200, cached |-> FALSE, stale |-> FALSE,
                        refreshing |-> FALSE, payload |-> t.data]]

\* cache_meta of _get_lifecycle_data, with the PRs it returns.
LifecycleResponse(t, refreshing) ==
    [t EXCEPT !.pc = "done", !.refreshing = refreshing,
              !.resp = [status |-> 200, cached |-> t.cached.has,
                        stale |-> IF t.cached.has THEN t.is_stale ELSE FALSE,
                        refreshing |-> refreshing, payload |-> t.data]]

\* No call of fetch_github_stats_api in progress.
IdleAdapter ==
    [pc |-> "idle", max_retries |-> 0, retry_delay |-> 0, attempt |-> 0,
     attempts |-> 0, sleeps |-> 0, calls |-> 0, elapsed |-> 0, log |-> <<>>,
     result |-> "none"]

\* The five tables, empty.
NoStores == [d \in Domains |-> [k \in Keys |-> Absent]]

\* No fetcher called: fetch_* frames exist only during a call.
IdleFetcher ==
    [name |-> "none", pc |-> "idle", subs |-> <<>>,
     result |-> [kind |-> "pending", parts |-> <<>>]]

\* A host on UTC with no row written.
IdleHost ==
    [utc_offset |-> 0, utc |-> 0, ttl |-> 1, has |-> FALSE, updated_at |-> 0]

\* No writer started, the row holding version 0 of the upstream data.
IdleRace ==
    [upstream |-> 0, row |-> 0,
     background |-> [pc |-> "idle", data |-> 0, seq |-> 0],
     force |-> [pc |-> "idle", data |-> 0, seq |-> 0],
     fetches |-> 0]

\* active_reviews = {} (extensions.py), no handler running, no subprocess.
NoReviews ==
    [active_reviews |-> [has |-> FALSE, process |-> 0, status |-> "none"],
     running |-> {}, started |-> 0, handlers |-> EmptyBag]

Init ==
    /\ adapter = IdleAdapter
    /\ stores = NoStores
    /\ fetcher = IdleFetcher
    /\ host = IdleHost
    /\ race = IdleRace
    /\ reviews = NoReviews
    /\ queue = <<>>
    /\ domain \in Domains
    /\ now = StartTime
    /\ cache \in [Keys -> {Absent} \cup
                    {Entry(p, u) : p \in Payloads, u \in 0..TtlTicks}]
    \* Rows a previous run of the program can have left: an empty payload is
    \* stored only where the code saves it.
    /\ \A k \in Keys : cache[k].has /\ cache[k].data = 0
                          => RequestSaves(domain, 0)
    /\ in_progress = {}
    /\ reqs = EmptyBag
    /\ tasks = EmptyBag
    /\ warmer = IdleWarmer(IF domain \in WarmedDomains THEN "start" ELSE "none")

----------------------------------------------------------------------------
(* Request arrival, the clock, the administrative reset *)

\* A request arrives: any key, with or without refresh=true.
StartRequest ==
    /\ BagCardinality(reqs) < MaxReqs
    /\ \E k \in Keys, f \in BOOLEAN :
          reqs' = reqs (+) SetToBag({NewRequest(k, f)})
    /\ UNCHANGED <<fetcher, host, race, reviews, queue,
                 adapter, stores, domain, now, cache, in_progress, tasks, warmer>>

\* The response has been sent; the handler's frame is gone.
Return(t) ==
    /\ t.pc = "done"
    /\ reqs' = reqs (-) SetToBag({t})
    /\ UNCHANGED <<fetcher, host, race, reviews, queue,
                 adapter, stores, domain, now, cache, in_progress, tasks, warmer>>

Tick ==
    /\ now < MaxTime
    /\ now' = now + 1
    /\ UNCHANGED <<fetcher, host, race, reviews, queue,
                 adapter, stores, domain, cache, in_progress, reqs, tasks, warmer>>

\* clear_cache: DELETE FROM the workflow, contributor and code-activity
\* tables; the developer-stats and lifecycle tables are not touched.
clear_cache ==
    /\ domain \in ClearedDomains
    /\ \E k \in Keys : cache[k].has
    /\ cache' = [k \in Keys |-> Absent]
    /\ UNCHANGED <<fetcher, host, race, reviews, queue,
                 adapter, stores, domain, now, in_progress, reqs, tasks, warmer>>

----------------------------------------------------------------------------
(* The lock section of the stale branch *)

\* A handler that starts a refresh whenever it finds a row, stale or not.
ShouldRefresh_unconditional(d, t) == TRUE

\* "if is_stale:" (workflow runs, code activity, contributor series),
\* "if is_stale and not refreshing:" (developer stats),
\* "if is_stale and prs:" (lifecycle).
ShouldRefresh(d, t) ==
    CASE d \in CommonDomains -> t.is_stale
      [] d = "stats" -> t.is_stale /\ ~t.refreshing
      [] d = "lifecycle" -> t.is_stale /\ t.data # 0

\* refreshing when the key is already in the in-progress set: the else
\* branch sets it in four handlers; get_developer_stats has no else branch
\* and keeps what it read before.
RefreshingWhenHeld(d, t) ==
    IF d = "stats" THEN t.refreshing ELSE TRUE

\* The response built after the lock section of a handler.
Respond(t, refreshing) ==
    IF domain = "lifecycle" THEN LifecycleResponse(t, refreshing)
    ELSE CachedResponse(t, refreshing)

\* with <lock>: if key not in set: set.add(key); Thread(...).start();
\* refreshing = True [else: refreshing = True].  Thread.start() raises
\* RuntimeError when no thread can be started; the key has been added by
\* then, and the handler answers 500.
LockSection(t) ==
    IF t.key \notin in_progress
    THEN /\ in_progress' = in_progress \cup {t.key}
         /\ \E started \in BOOLEAN :
               IF started
               THEN /\ tasks' = tasks (+) SetToBag({NewTask(t.key)})
                    /\ ReqStep(t, Respond([t EXCEPT !.ticket = TRUE,
                                                    !.launched = TRUE], TRUE))
               ELSE /\ tasks' = tasks
                    /\ ReqStep(t, Error500([t EXCEPT !.ticket = TRUE]))
    ELSE /\ ReqStep(t, Respond(t, RefreshingWhenHeld(domain, t)))
         /\ UNCHANGED <<in_progress, tasks>>

----------------------------------------------------------------------------
(* get_workflow_runs; get_code_activity and get_contributor_timeseries take
   the same steps and differ in RequestSaves and BackgroundSaves *)

\* cached = db.get_cached(repo_key)
get_workflow_runs_get_cached(t) ==
    /\ domain \in CommonDomains
    /\ t.pc = "get_cached"
    /\ ReqStep(t, [t EXCEPT !.cached = get_cached(t.key), !.pc = "is_stale"])
    /\ UNCHANGED <<fetcher, host, race, reviews, queue,
                 adapter, stores, domain, now, cache, in_progress, tasks, warmer>>

\* is_stale = db.is_stale(repo_key, ttl); then the branch on cached and
\* is_stale: the lock section, the cached response, or the synchronous fetch.
get_workflow_runs_is_stale(t) ==
    /\ domain \in CommonDomains
    /\ t.pc = "is_stale"
    /\ LET u == [t EXCEPT !.is_stale = is_stale(t.key)]
       IN  ReqStep(t, IF u.cached.has
                      THEN (IF ShouldRefresh(domain, u)
                            THEN [u EXCEPT !.pc = "lock"]
                            ELSE CachedResponse(u, FALSE))
                      ELSE [u EXCEPT !.pc = "fetch"])
    /\ UNCHANGED <<fetcher, host, race, reviews, queue,
                 adapter, stores, domain, now, cache, in_progress, tasks, warmer>>

get_workflow_runs_lock(t) ==
    /\ domain \in CommonDomains
    /\ t.pc = "lock"
    /\ LockSection(t)
    /\ UNCHANGED <<fetcher, host, race, reviews, queue,
                 adapter, stores, domain, now, cache, warmer>>

\* data = fetch(owner, repo), forced or with no cache.  An exception ends
\* the handler with a 500.  "if data: save" is decided here.
RequestFetch(t) ==
    /\ domain \in CommonDomains \cup {"stats"}
    /\ t.pc = "fetch"
    /\ \E u \in Upstream, v \in 1..MaxPayload :
          LET f == Fetch(domain, u, v)
              g == [t EXCEPT !.data = f.data, !.fetches = @ + 1,
                             !.failed = (u \in {"cmd_fail", "gh_missing"})]
          IN  ReqStep(t, IF f.raised THEN Error500(g)
                         ELSE IF RequestSaves(domain, f.data)
                         THEN [g EXCEPT !.pc = "save"]
                         ELSE FetchedResponse(g))
    /\ UNCHANGED <<fetcher, host, race, reviews, queue,
                 adapter, stores, domain, now, cache, in_progress, tasks, warmer>>

\* db.save_cache(repo_key, data) / db.save_stats(full_repo, cache_data); the
\* write commits whole or raises and leaves the table as it was.  The
\* get_cached / get_last_updated that follows feeds last_updated only.
RequestSave(t) ==
    /\ domain \in CommonDomains \cup {"stats"}
    /\ t.pc = "save"
    /\ \E ok \in BOOLEAN :
          IF ok
          THEN /\ cache' = save_cache(t.key, t.data)
               /\ ReqStep(t, FetchedResponse([t EXCEPT !.writes = @ + 1]))
          ELSE /\ cache' = cache
               /\ ReqStep(t, Error500(t))
    /\ UNCHANGED <<fetcher, host, race, reviews, queue,
                 adapter, stores, domain, now, in_progress, tasks, warmer>>

----------------------------------------------------------------------------
(* get_developer_stats *)

get_developer_stats_is_stale(t) ==
    /\ domain = "stats"
    /\ t.pc = "is_stale"
    /\ ReqStep(t, [t EXCEPT !.is_stale = is_stale(t.key),
                            !.pc = "last_updated"])
    /\ UNCHANGED <<fetcher, host, race, reviews, queue,
                 adapter, stores, domain, now, cache, in_progress, tasks, warmer>>

get_developer_stats_last_updated(t) ==
    /\ domain = "stats"
    /\ t.pc = "last_updated"
    /\ ReqStep(t, [t EXCEPT !.last_updated = LastUpdated(get_cached(t.key)),
                            !.pc = "get_stats"])
    /\ UNCHANGED <<fetcher, host, race, reviews, queue,
                 adapter, stores, domain, now, cache, in_progress, tasks, warmer>>

get_developer_stats_get_stats(t) ==
    /\ domain = "stats"
    /\ t.pc = "get_stats"
    /\ ReqStep(t, [t EXCEPT !.cached = get_cached(t.key),
                            !.pc = "refreshing"])
    /\ UNCHANGED <<fetcher, host, race, reviews, queue,
                 adapter, stores, domain, now, cache, in_progress, tasks, warmer>>

\* with stats_refresh_lock: refreshing = full_repo in
\* stats_refresh_in_progress; then the branch on force_refresh,
\* cached_stats, is_stale and refreshing.
get_developer_stats_refreshing(t) ==
    /\ domain = "stats"
    /\ t.pc = "refreshing"
    /\ LET u == [t EXCEPT !.refreshing = (t.key \in in_progress)]
       IN  ReqStep(t, IF u.force THEN [u EXCEPT !.pc = "fetch"]
                      ELSE IF u.cached.has
                      THEN (IF ShouldRefresh(domain, u)
                            THEN [u EXCEPT !.pc = "lock"]
                            ELSE CachedResponse(u, u.refreshing))
                      ELSE [u EXCEPT !.pc = "fetch"])
    /\ UNCHANGED <<fetcher, host, race, reviews, queue,
                 adapter, stores, domain, now, cache, in_progress, tasks, warmer>>

get_developer_stats_lock(t) ==
    /\ domain = "stats"
    /\ t.pc = "lock"
    /\ LockSection(t)
    /\ UNCHANGED <<fetcher, host, race, reviews, queue,
                 adapter, stores, domain, now, cache, warmer>>

----------------------------------------------------------------------------
(* _get_lifecycle_data and fetch_pr_review_times; the lifecycle routes read
   no refresh parameter *)

\* After prs is known: "if is_stale and prs:" leads to the lock section.
LifecycleDecide(u) ==
    IF ShouldRefresh(domain, u) THEN [u EXCEPT !.pc = "lock"]
    ELSE LifecycleResponse(u, FALSE)

_get_lifecycle_data_is_stale(t) ==
    /\ domain = "lifecycle"
    /\ t.pc = "is_stale"
    /\ ReqStep(t, [t EXCEPT !.is_stale = is_stale(t.key), !.pc = "get_cached"])
    /\ UNCHANGED <<fetcher, host, race, reviews, queue,
                 adapter, stores, domain, now, cache, in_progress, tasks, warmer>>

_get_lifecycle_data_get_cached(t) ==
    /\ domain = "lifecycle"
    /\ t.pc = "get_cached"
    /\ ReqStep(t, [t EXCEPT !.cached = get_cached(t.key),
                            !.pc = "fetch_pr_review_times"])
    /\ UNCHANGED <<fetcher, host, race, reviews, queue,
                 adapter, stores, domain, now, cache, in_progress, tasks, warmer>>

\* fetch_pr_review_times: its own get_cached; the cached data if there is a
\* row, else the synchronous fetch.
fetch_pr_review_times_get_cached(t) ==
    /\ domain = "lifecycle"
    /\ t.pc = "fetch_pr_review_times"
    /\ LET c == get_cached(t.key)
       IN  ReqStep(t, IF c.has
                      THEN LifecycleDecide([t EXCEPT !.data = c.data])
                      ELSE [t EXCEPT !.pc = "fetch"])
    /\ UNCHANGED <<fetcher, host, race, reviews, queue,
                 adapter, stores, domain, now, cache, in_progress, tasks, warmer>>

fetch_pr_review_times_fetch(t) ==
    /\ domain = "lifecycle"
    /\ t.pc = "fetch"
    /\ \E u \in Upstream, v \in 1..MaxPayload :
          LET f == Fetch(domain, u, v)
              g == [t EXCEPT !.data = f.data, !.fetches = @ + 1,
                             !.failed = (u \in {"cmd_fail", "gh_missing"})]
          IN  ReqStep(t, IF f.raised THEN Error500(g)
                         ELSE [g EXCEPT !.pc = "save"])
    /\ UNCHANGED <<fetcher, host, race, reviews, queue,
                 adapter, stores, domain, now, cache, in_progress, tasks, warmer>>

\* lifecycle_cache_db.save_cache(repo_key, data), whatever data is.
fetch_pr_review_times_save(t) ==
    /\ domain = "lifecycle"
    /\ t.pc = "save"
    /\ \E ok \in BOOLEAN :
          IF ok
          THEN /\ cache' = save_cache(t.key, t.data)
               /\ ReqStep(t, LifecycleDecide([t EXCEPT !.writes = @ + 1]))
          ELSE /\ cache' = cache
               /\ ReqStep(t, Error500(t))
    /\ UNCHANGED <<fetcher, host, race, reviews, queue,
                 adapter, stores, domain, now, in_progress, tasks, warmer>>

_get_lifecycle_data_lock(t) ==
    /\ domain = "lifecycle"
    /\ t.pc = "lock"
    /\ LockSection(t)
    /\ UNCHANGED <<fetcher, host, race, reviews, queue,
                 adapter, stores, domain, now, cache, warmer>>

----------------------------------------------------------------------------
(* _background_refresh_workflows, _background_refresh_stats,
   _background_refresh_lifecycle, _background_refresh_code_activity,
   _background_refresh_contributor_ts: try / except Exception / finally *)

\* data = fetch(owner, repo); an exception is logged by the except clause.
\* "if data:" is decided here.
background_refresh_fetch(t) ==
    /\ t.pc = "fetch"
    /\ \E u \in Upstream, v \in 1..MaxPayload :
          LET f == Fetch(domain, u, v)
          IN  TaskStep(t, IF f.raised
                          THEN [t EXCEPT !.raised = TRUE, !.pc = "finally"]
                          ELSE IF BackgroundSaves(domain, f.data)
                          THEN [t EXCEPT !.data = f.data, !.pc = "save"]
                          ELSE [t EXCEPT !.pc = "finally"])
    /\ UNCHANGED <<fetcher, host, race, reviews, queue,
                 adapter, stores, domain, now, cache, in_progress, reqs, warmer>>

\* A save that raises after its row has been committed.
background_refresh_save_committed(t) ==
    /\ t.pc = "save"
    /\ cache' = save_cache(t.key, t.data)
    /\ \E ok \in BOOLEAN :
          TaskStep(t, [t EXCEPT !.data = 0, !.raised = ~ok, !.pc = "finally"])
    /\ UNCHANGED <<fetcher, host, race, reviews, queue,
                 adapter, stores, domain, now, in_progress, reqs, warmer>>

\* db.save_cache(repo_key, data); an exception is logged by the except
\* clause.
background_refresh_save(t) ==
    /\ t.pc = "save"
    /\ \E ok \in BOOLEAN :
          IF ok
          THEN /\ cache' = save_cache(t.key, t.data)
               /\ TaskStep(t, [t EXCEPT !.data = 0, !.pc = "finally"])
          ELSE /\ cache' = cache
               /\ TaskStep(t, [t EXCEPT !.data = 0, !.raised = TRUE,
                                        !.pc = "finally"])
    /\ UNCHANGED <<fetcher, host, race, reviews, queue,
                 adapter, stores, domain, now, in_progress, reqs, warmer>>

\* finally: with <lock>: set.discard(repo_key); the thread ends.
background_refresh_finally(t) ==
    /\ t.pc = "finally"
    /\ in_progress' = in_progress \ {t.key}
    /\ tasks' = tasks (-) SetToBag({t})
    /\ UNCHANGED <<fetcher, host, race, reviews, queue,
                 adapter, stores, domain, now, cache, reqs, warmer>>

----------------------------------------------------------------------------
(* startup_refresh_workflow_caches, startup_refresh_stats_caches: one thread,
   started with the process *)

\* repos = db.get_all_repos()
startup_refresh_get_all_repos ==
    /\ warmer.pc = "start"
    /\ warmer' = [warmer EXCEPT !.todo = get_all_repos, !.pc = "loop"]
    /\ UNCHANGED <<fetcher, host, race, reviews, queue,
                 adapter, stores, domain, now, cache, in_progress, reqs, tasks>>

\* for repo_key in repos: if db.is_stale(repo_key, ttl): ...
startup_refresh_is_stale ==
    /\ warmer.pc = "loop"
    /\ warmer' =
          IF warmer.todo = <<>> THEN IdleWarmer("done")
          ELSE IF is_stale(Head(warmer.todo))
          THEN [warmer EXCEPT !.key = Head(warmer.todo),
                              !.todo = Tail(warmer.todo), !.pc = "acquire"]
          ELSE [warmer EXCEPT !.todo = Tail(warmer.todo)]
    /\ UNCHANGED <<fetcher, host, race, reviews, queue,
                 adapter, stores, domain, now, cache, in_progress, reqs, tasks>>

\* with <lock>: if repo_key not in set: set.add(repo_key).  The try block
\* follows the with block, whichever way the test went.
startup_refresh_acquire ==
    /\ warmer.pc = "acquire"
    /\ in_progress' = in_progress \cup {warmer.key}
    /\ warmer' = [warmer EXCEPT !.acquired = (warmer.key \notin in_progress),
                                !.pc = "fetch"]
    /\ UNCHANGED <<fetcher, host, race, reviews, queue,
                 adapter, stores, domain, now, cache, reqs, tasks>>

startup_refresh_fetch ==
    /\ warmer.pc = "fetch"
    /\ \E u \in Upstream, v \in 1..MaxPayload :
          LET f == Fetch(domain, u, v)
          IN  warmer' = IF f.raised
                        THEN [warmer EXCEPT !.pc = "finally"]
                        ELSE IF StartupSaves(domain, f.data)
                        THEN [warmer EXCEPT !.data = f.data, !.pc = "save"]
                        ELSE [warmer EXCEPT !.pc = "finally"]
    /\ UNCHANGED <<fetcher, host, race, reviews, queue,
                 adapter, stores, domain, now, cache, in_progress, reqs, tasks>>

startup_refresh_save ==
    /\ warmer.pc = "save"
    /\ \E ok \in BOOLEAN :
          IF ok
          THEN /\ cache' = save_cache(warmer.key, warmer.data)
               /\ warmer' = [warmer EXCEPT !.data = 0, !.pc = "finally"]
          ELSE /\ cache' = cache
               /\ warmer' = [warmer EXCEPT !.data = 0, !.pc = "finally"]
    /\ UNCHANGED <<fetcher, host, race, reviews, queue,
                 adapter, stores, domain, now, in_progress, reqs, tasks>>

\* finally: with <lock>: set.discard(repo_key); on to the next key.
startup_refresh_finally ==
    /\ warmer.pc = "finally"
    /\ in_progress' = in_progress \ {warmer.key}
    /\ warmer' = [IdleWarmer("loop") EXCEPT !.todo = warmer.todo]
    /\ UNCHANGED <<fetcher, host, race, reviews, queue,
                 adapter, stores, domain, now, cache, reqs, tasks>>

----------------------------------------------------------------------------

Next ==
    \/ StartRequest
    \/ Tick
    \/ clear_cache
    \/ \E t \in Requests : get_workflow_runs_get_cached(t)
    \/ \E t \in Requests : get_workflow_runs_is_stale(t)
    \/ \E t \in Requests : get_workflow_runs_lock(t)
    \/ \E t \in Requests : RequestFetch(t)
    \/ \E t \in Requests : RequestSave(t)
    \/ \E t \in Requests : get_developer_stats_is_stale(t)
    \/ \E t \in Requests : get_developer_stats_last_updated(t)
    \/ \E t \in Requests : get_developer_stats_get_stats(t)
    \/ \E t \in Requests : get_developer_stats_refreshing(t)
    \/ \E t \in Requests : get_developer_stats_lock(t)
    \/ \E t \in Requests : _get_lifecycle_data_is_stale(t)
    \/ \E t \in Requests : _get_lifecycle_data_get_cached(t)
    \/ \E t \in Requests : fetch_pr_review_times_get_cached(t)
    \/ \E t \in Requests : fetch_pr_review_times_fetch(t)
    \/ \E t \in Requests : fetch_pr_review_times_save(t)
    \/ \E t \in Requests : _get_lifecycle_data_lock(t)
    \/ \E t \in Requests : Return(t)
    \/ \E t \in Tasks : background_refresh_fetch(t)
    \/ \E t \in Tasks : background_refresh_save(t)
    \/ \E t \in Tasks : background_refresh_finally(t)
    \/ startup_refresh_get_all_repos
    \/ startup_refresh_is_stale
    \/ startup_refresh_acquire
    \/ startup_refresh_fetch
    \/ startup_refresh_save
    \/ startup_refresh_finally

Spec == Init /\ [][Next]_vars

----------------------------------------------------------------------------
(* fetch_github_stats_api(owner, repo, endpoint, jq_query, max_retries,
   retry_delay): one call at a time, every upstream behaviour *)

\* What the status probe (subprocess.run(["gh", "api", ..., "-i"],
\* check=False)) can meet: a 202, any other answer, gh exiting with failure
\* (no exception with check=False), or no gh executable (FileNotFoundError).
ProbeOutcomes == {"pending", "ready", "exit_fail", "gh_missing"}

\* What the data call (run_gh_command) can meet: a non-empty parsed result,
\* an empty or unparsable one, gh exiting with failure, or no gh executable
\* (both raised as RuntimeError by run_gh_command).
DataOutcomes == {"data", "empty", "cmd_fail", "gh_missing"}

Logged(a, call, o) ==
    [a EXCEPT !.calls = @ + 1,
              !.log = Append(@, [call |-> call, outcome |-> o])]

\* return []
ReturnEmpty(a) == [a EXCEPT !.pc = "done", !.result = "empty"]

\* if attempt < max_retries - 1: time.sleep(retry_delay); continue
\* else (or after the if, or in the except clause): return []
RetryOrGiveUp(a) ==
    IF a.attempt < a.max_retries - 1 THEN [a EXCEPT !.pc = "sleep"]
    ELSE ReturnEmpty(a)

\* The call: for attempt in range(max_retries); with max_retries = 0 the
\* loop body never runs and line 78 returns [].
fetch_github_stats_api_call ==
    /\ adapter.pc = "idle"
    /\ \E n \in 0..MaxRetries, d \in 1..MaxDelay :
          LET a == [IdleAdapter EXCEPT !.max_retries = n, !.retry_delay = d]
          IN  adapter' = IF n = 0 THEN ReturnEmpty(a)
                         ELSE [a EXCEPT !.pc = "probe"]
    /\ UNCHANGED <<fetcher, host, race, reviews, queue,
                 domain, now, cache, in_progress, reqs, tasks, warmer, stores>>

\* A probe that sleeps on every 202, the last attempt's included.
fetch_github_stats_api_probe_sleeps ==
    /\ adapter.pc = "probe"
    /\ \E o \in ProbeOutcomes :
          LET a == Logged([adapter EXCEPT !.attempts = @ + 1], "probe", o)
          IN  adapter' =
                 CASE o = "gh_missing" ->
                         [a EXCEPT !.pc = "done", !.result = "raised"]
                   [] o = "pending" -> [a EXCEPT !.pc = "sleep"]
                   [] OTHER -> [a EXCEPT !.pc = "data"]
    /\ UNCHANGED <<fetcher, host, race, reviews, queue,
                 domain, now, cache, in_progress, reqs, tasks, warmer, stores>>

\* The status probe of one attempt (lines 45-57).  FileNotFoundError is not
\* a RuntimeError: the except clause does not catch it and it leaves the
\* function.
fetch_github_stats_api_probe ==
    /\ adapter.pc = "probe"
    /\ \E o \in ProbeOutcomes :
          LET a == Logged([adapter EXCEPT !.attempts = @ + 1], "probe", o)
          IN  adapter' =
                 CASE o = "gh_missing" ->
                         [a EXCEPT !.pc = "done", !.result = "raised"]
                   [] o = "pending" -> RetryOrGiveUp(a)
                   [] OTHER -> [a EXCEPT !.pc = "data"]
    /\ UNCHANGED <<fetcher, host, race, reviews, queue,
                 domain, now, cache, in_progress, reqs, tasks, warmer, stores>>

\* A data call that sleeps after every attempt without data.
fetch_github_stats_api_data_sleeps ==
    /\ adapter.pc = "data"
    /\ \E o \in DataOutcomes :
          LET a == Logged(adapter, "data", o)
          IN  adapter' =
                 IF o = "data" THEN [a EXCEPT !.pc = "done", !.result = "data"]
                 ELSE [a EXCEPT !.pc = "sleep"]
    /\ UNCHANGED <<fetcher, host, race, reviews, queue,
                 domain, now, cache, in_progress, reqs, tasks, warmer, stores>>

\* The data call of the attempt (lines 59-76): parsed data is returned; an
\* empty result and a RuntimeError both lead to the sleep, or to [] on the
\* last attempt.
fetch_github_stats_api_data ==
    /\ adapter.pc = "data"
    /\ \E o \in DataOutcomes :
          LET a == Logged(adapter, "data", o)
          IN  adapter' =
                 IF o = "data" THEN [a EXCEPT !.pc = "done", !.result = "data"]
                 ELSE RetryOrGiveUp(a)
    /\ UNCHANGED <<fetcher, host, race, reviews, queue,
                 domain, now, cache, in_progress, reqs, tasks, warmer, stores>>

\* time.sleep(retry_delay); continue: the next attempt, or the end of the
\* loop and line 78.
fetch_github_stats_api_sleep ==
    /\ adapter.pc = "sleep"
    /\ LET a == [adapter EXCEPT !.sleeps = @ + 1,
                                !.elapsed = @ + adapter.retry_delay,
                                !.attempt = @ + 1]
       IN  adapter' = IF a.attempt < a.max_retries
                      THEN [a EXCEPT !.pc = "probe"]
                      ELSE ReturnEmpty(a)
    /\ UNCHANGED <<fetcher, host, race, reviews, queue,
                 domain, now, cache, in_progress, reqs, tasks, warmer, stores>>

\* The caller has the result (or the exception).
fetch_github_stats_api_return ==
    /\ adapter.pc = "done"
    /\ adapter' = IdleAdapter
    /\ UNCHANGED <<fetcher, host, race, reviews, queue,
                 domain, now, cache, in_progress, reqs, tasks, warmer, stores>>

InitAdapter ==
    /\ adapter = IdleAdapter
    /\ stores = NoStores
    /\ fetcher = IdleFetcher
    /\ host = IdleHost
    /\ race = IdleRace
    /\ reviews = NoReviews
    /\ queue = <<>>
    /\ domain = "contributor_ts"
    /\ now = StartTime
    /\ cache = [k \in Keys |-> Absent]
    /\ in_progress = {}
    /\ reqs = EmptyBag
    /\ tasks = EmptyBag
    /\ warmer = IdleWarmer("none")

NextAdapter ==
    \/ fetch_github_stats_api_call
    \/ fetch_github_stats_api_probe
    \/ fetch_github_stats_api_data
    \/ fetch_github_stats_api_sleep
    \/ fetch_github_stats_api_return

SpecAdapter == InitAdapter /\ [][NextAdapter]_vars

----------------------------------------------------------------------------
(* The five tables side by side: saves to any of them, the clock, and
   clear_cache *)

\* save_cache / save_stats on the table of domain d, by whichever handler,
\* background refresh or warmer: upsert with updated_at = CURRENT_TIMESTAMP;
\* save_stats returns without writing for an empty list.
store_save_cache ==
    /\ \E d \in Domains, k \in Keys, p \in Payloads :
          /\ ~(d = "stats" /\ p = 0)
          /\ stores' = [stores EXCEPT ![d][k] = Entry(p, now)]
    /\ UNCHANGED <<fetcher, host, race, reviews, queue,
                 adapter, domain, now, cache, in_progress, reqs, tasks, warmer>>

\* POST /api/clear-cache: cache.clear(), then clear() on the workflow,
\* contributor and code-activity stores.  DeveloperStatsDB.clear_stats is
\* not called and LifecycleCacheDB has no clear.
clear_cache_stores ==
    /\ stores' = [d \in Domains |->
                     IF d \in ClearedDomains THEN [k \in Keys |-> Absent]
                     ELSE stores[d]]
    /\ UNCHANGED <<fetcher, host, race, reviews, queue,
                 adapter, domain, now, cache, in_progress, reqs, tasks, warmer>>

InitStores ==
    /\ stores = NoStores
    /\ adapter = IdleAdapter
    /\ fetcher = IdleFetcher
    /\ host = IdleHost
    /\ race = IdleRace
    /\ reviews = NoReviews
    /\ queue = <<>>
    /\ domain = "workflow"
    /\ now = StartTime
    /\ cache = [k \in Keys |-> Absent]
    /\ in_progress = {}
    /\ reqs = EmptyBag
    /\ tasks = EmptyBag
    /\ warmer = IdleWarmer("none")

NextStores ==
    \/ store_save_cache
    \/ Tick
    \/ clear_cache_stores

SpecStores == InitStores /\ [][NextStores]_vars

----------------------------------------------------------------------------
(* The five domain fetchers, one call at a time *)

\* The upstream calls a fetcher makes, in the order it reads their results:
\* "adapter" is a call of fetch_github_stats_api, "gh" a call of
\* run_gh_command inside try / except RuntimeError.
\*  - fetch_workflow_data: fetch_workflows, fetch_total_count, fetch_page
\*    (a later page is read only after a full one);
\*  - fetch_and_compute_stats: fetch_contributor_stats, fetch_pr_stats,
\*    fetch_review_stats;
\*  - fetch_contributor_timeseries: stats/contributors;
\*  - fetch_code_activity_data: stats/code_frequency, stats/commit_activity,
\*    stats/participation;
\*  - fetch_review_times_from_api: gh pr list, then the reviews of the PRs.
SubCalls(d) ==
    CASE d = "workflow" -> <<"gh", "gh", "gh">>
      [] d = "stats" -> <<"adapter", "gh", "gh">>
      [] d = "contributor_ts" -> <<"adapter">>
      [] d = "activity" -> <<"adapter", "adapter", "adapter">>
      [] d = "lifecycle" -> <<"gh", "gh">>

\* Whether a sub-call of the given kind raises into the fetcher under
\* upstream condition u: fetch_github_stats_api does not catch the
\* FileNotFoundError of a missing gh; run_gh_command turns it into
\* RuntimeError, which the fetcher catches.
SubCallRaises(kind, u) == kind = "adapter" /\ u = "gh_missing"

\* What a sub-call contributes to the payload: 1 for data, 0 for the empty
\* list, the empty dict or the zero put in place of an empty or failed call.
SubCallPart(u) == IF u = "ok" THEN 1 ELSE 0

RECURSIVE Parts(_)
Parts(subs) ==
    IF subs = <<>> THEN <<>>
    ELSE <<SubCallPart(Head(subs))>> \o Parts(Tail(subs))

AllEmpty(parts) == \A i \in 1..Len(parts) : parts[i] = 0

\* The value the fetcher returns once its sub-calls have returned.
\*  - fetch_workflow_data returns the dict {"runs", "workflows",
\*    "all_time_total"} whatever its parts hold;
\*  - fetch_and_compute_stats returns the list of developers, [] when the
\*    three sources are empty;
\*  - fetch_contributor_timeseries returns [] for "not raw";
\*  - fetch_code_activity_data returns None when its four lists are empty;
\*  - fetch_review_times_from_api returns [] for "not prs".
FetcherResult(d, parts) ==
    CASE d = "workflow" -> [kind |-> "payload", parts |-> parts]
      [] d \in {"stats", "contributor_ts", "lifecycle"} ->
            IF AllEmpty(parts) THEN [kind |-> "empty_list", parts |-> <<>>]
            ELSE [kind |-> "payload", parts |-> parts]
      [] d = "activity" ->
            IF AllEmpty(parts) THEN [kind |-> "None", parts |-> <<>>]
            ELSE [kind |-> "payload", parts |-> parts]

\* A fetcher is called.
fetcher_call ==
    /\ fetcher.pc = "idle"
    /\ \E d \in Domains :
          fetcher' = [IdleFetcher EXCEPT !.name = d, !.pc = "subcalls"]
    /\ UNCHANGED <<domain, now, cache, in_progress, reqs, tasks, warmer,
                   adapter, stores, host, race, reviews, queue>>

\* The next sub-call returns or raises.  fetch_review_times_from_api returns
\* [] before asking for reviews when the list of PRs is empty.
fetcher_subcall ==
    /\ fetcher.pc = "subcalls"
    /\ Len(fetcher.subs) < Len(SubCalls(fetcher.name))
    /\ ~(fetcher.name = "lifecycle" /\ Len(fetcher.subs) = 1
            /\ fetcher.subs[1] # "ok")
    /\ \E u \in Upstream :
          LET kind == SubCalls(fetcher.name)[Len(fetcher.subs) + 1]
              f == [fetcher EXCEPT !.subs = Append(@, u)]
          IN  fetcher' =
                 IF SubCallRaises(kind, u)
                 THEN [f EXCEPT !.pc = "done",
                                !.result = [kind |-> "raised", parts |-> <<>>]]
                 ELSE f
    /\ UNCHANGED <<domain, now, cache, in_progress, reqs, tasks, warmer,
                   adapter, stores, host, race, reviews, queue>>

\* return: the result is computed from what the sub-calls gave.
fetcher_return ==
    /\ fetcher.pc = "subcalls"
    /\ \/ Len(fetcher.subs) = Len(SubCalls(fetcher.name))
       \/ /\ fetcher.name = "lifecycle"
          /\ Len(fetcher.subs) = 1
          /\ fetcher.subs[1] # "ok"
    /\ fetcher' = [fetcher EXCEPT
                      !.pc = "done",
                      !.result = FetcherResult(fetcher.name, Parts(fetcher.subs))]
    /\ UNCHANGED <<domain, now, cache, in_progress, reqs, tasks, warmer,
                   adapter, stores, host, race, reviews, queue>>

\* The caller has taken the result.
fetcher_done ==
    /\ fetcher.pc = "done"
    /\ fetcher' = IdleFetcher
    /\ UNCHANGED <<domain, now, cache, in_progress, reqs, tasks, warmer,
                   adapter, stores, host, race, reviews, queue>>

InitFetchers ==
    /\ fetcher = IdleFetcher
    /\ host = IdleHost
    /\ race = IdleRace
    /\ reviews = NoReviews
    /\ queue = <<>>
    /\ adapter = IdleAdapter
    /\ stores = NoStores
    /\ domain = "workflow"
    /\ now = StartTime
    /\ cache = [k \in Keys |-> Absent]
    /\ in_progress = {}
    /\ reqs = EmptyBag
    /\ tasks = EmptyBag
    /\ warmer = IdleWarmer("none")

NextFetchers ==
    \/ fetcher_call
    \/ fetcher_subcall
    \/ fetcher_return
    \/ fetcher_done

SpecFetchers == InitFetchers /\ [][NextFetchers]_vars

----------------------------------------------------------------------------
(* The clocks of a cache row: SQLite's CURRENT_TIMESTAMP and Python's
   datetime.now(), in whole hours *)

\* datetime.now(): the naive local wall clock of the host.
LocalNow(h) == h.utc + h.utc_offset

\* is_stale of a cache store (and DeveloperStatsDB.is_stale): the text in
\* updated_at is parsed as a naive datetime and subtracted from
\* datetime.now().
host_is_stale(h) ==
    IF ~h.has THEN TRUE
    ELSE LocalNow(h) - h.updated_at > h.ttl

\* save_cache / save_stats: updated_at = CURRENT_TIMESTAMP, which SQLite
\* gives in UTC.
host_save_cache ==
    /\ host' = [host EXCEPT !.has = TRUE, !.updated_at = host.utc]
    /\ UNCHANGED <<domain, now, cache, in_progress, reqs, tasks, warmer,
                   adapter, stores, fetcher, race, reviews, queue>>

\* An hour passes.
host_tick ==
    /\ host.utc < MaxUtc
    /\ host' = [host EXCEPT !.utc = @ + 1]
    /\ UNCHANGED <<domain, now, cache, in_progress, reqs, tasks, warmer,
                   adapter, stores, fetcher, race, reviews, queue>>

\* The host's zone is any offset from UTC, the TTL any positive number of
\* hours.
InitHost ==
    /\ host \in {[IdleHost EXCEPT !.utc_offset = o, !.ttl = t] :
                    o \in (0 - MaxOffset)..MaxOffset, t \in 1..MaxTtl}
    /\ fetcher = IdleFetcher
    /\ race = IdleRace
    /\ reviews = NoReviews
    /\ queue = <<>>
    /\ adapter = IdleAdapter
    /\ stores = NoStores
    /\ domain = "workflow"
    /\ now = StartTime
    /\ cache = [k \in Keys |-> Absent]
    /\ in_progress = {}
    /\ reqs = EmptyBag
    /\ tasks = EmptyBag
    /\ warmer = IdleWarmer("none")

NextHost ==
    \/ host_save_cache
    \/ host_tick

SpecHost == InitHost /\ [][NextHost]_vars

----------------------------------------------------------------------------
(* Two writers of one workflow_cache row: the background refresh a request
   has started and a request with refresh=true *)

\* The upstream data changes: versions are numbered in the order GitHub
\* produces them.
race_upstream_changes ==
    /\ race.upstream < MaxVersion
    /\ race' = [race EXCEPT !.upstream = @ + 1]
    /\ UNCHANGED <<domain, now, cache, in_progress, reqs, tasks, warmer,
                   adapter, stores, fetcher, host, reviews, queue>>

\* data = fetch_workflow_data(owner, repo), in the thread of
\* _background_refresh_workflows: the version upstream holds now; seq is the
\* rank of this fetch among the fetches.
race_background_fetch ==
    /\ race.background.pc = "idle"
    /\ race' = [race EXCEPT !.fetches = @ + 1,
                            !.background = [pc |-> "fetched",
                                            data |-> race.upstream,
                                            seq |-> race.fetches + 1]]
    /\ UNCHANGED <<domain, now, cache, in_progress, reqs, tasks, warmer,
                   adapter, stores, fetcher, host, reviews, queue>>

\* db.save_cache(repo_key, data) of the background refresh: an upsert that
\* replaces whatever the row holds.
race_background_save ==
    /\ race.background.pc = "fetched"
    /\ race' = [race EXCEPT !.row = race.background.data,
                            !.background.pc = "saved"]
    /\ UNCHANGED <<domain, now, cache, in_progress, reqs, tasks, warmer,
                   adapter, stores, fetcher, host, reviews, queue>>

\* data = fetch_workflow_data(owner, repo) of get_workflow_runs with
\* refresh=true; no lock, no look at the in-progress set.
race_force_fetch ==
    /\ race.force.pc = "idle"
    /\ race' = [race EXCEPT !.fetches = @ + 1,
                            !.force = [pc |-> "fetched",
                                       data |-> race.upstream,
                                       seq |-> race.fetches + 1]]
    /\ UNCHANGED <<domain, now, cache, in_progress, reqs, tasks, warmer,
                   adapter, stores, fetcher, host, reviews, queue>>

\* db.save_cache(repo_key, data) of the forced request.
race_force_save ==
    /\ race.force.pc = "fetched"
    /\ race' = [race EXCEPT !.row = race.force.data, !.force.pc = "saved"]
    /\ UNCHANGED <<domain, now, cache, in_progress, reqs, tasks, warmer,
                   adapter, stores, fetcher, host, reviews, queue>>

InitRace ==
    /\ race = IdleRace
    /\ fetcher = IdleFetcher
    /\ host = IdleHost
    /\ reviews = NoReviews
    /\ queue = <<>>
    /\ adapter = IdleAdapter
    /\ stores = NoStores
    /\ domain = "workflow"
    /\ now = StartTime
    /\ cache = [k \in Keys |-> Absent]
    /\ in_progress = {}
    /\ reqs = EmptyBag
    /\ tasks = EmptyBag
    /\ warmer = IdleWarmer("none")

NextRace ==
    \/ race_upstream_changes
    \/ race_background_fetch
    \/ race_background_save
    \/ race_force_fetch
    \/ race_force_save

SpecRace == InitRace /\ [][NextRace]_vars

----------------------------------------------------------------------------
(* Code reviews of one pull request: active_reviews["owner/repo/number"],
   the handlers of POST and DELETE /api/reviews, and the review
   subprocesses *)

\* A start_review handler's frame, past the validation of its JSON body.
NewStart == [pc |-> "check", process |-> 0, status |-> 0]

Handlers == BagToSet(reviews.handlers)

HandlerStep(t, u) ==
    (reviews.handlers (-) SetToBag({t})) (+) SetToBag({u})

\* POST /api/reviews arrives for the key.
start_review_arrives ==
    /\ BagCardinality(reviews.handlers) < MaxStarts
    /\ reviews' = [reviews EXCEPT !.handlers = @ (+) SetToBag({NewStart})]
    /\ UNCHANGED <<domain, now, cache, in_progress, reqs, tasks, warmer,
                   adapter, stores, fetcher, host, race, queue>>

\* with reviews_lock: if key in active_reviews and its status is "running":
\* return 409.  The lock is released at the end of the with block.
start_review_check(t) ==
    /\ t.pc = "check"
    /\ LET r == reviews.active_reviews
           u == IF r.has /\ r.status = "running"
                THEN [t EXCEPT !.pc = "done", !.status = 409]
                ELSE [t EXCEPT !.pc = "spawn"]
       IN  reviews' = [reviews EXCEPT !.handlers = HandlerStep(t, u)]
    /\ UNCHANGED <<domain, now, cache, in_progress, reqs, tasks, warmer,
                   adapter, stores, fetcher, host, race, queue>>

\* process, result, is_followup = start_review_process(...): Popen starts the
\* subprocess, or fails and the handler answers 500.
start_review_spawn(t) ==
    /\ t.pc = "spawn"
    /\ \/ /\ reviews.started < MaxProcs
          /\ LET p == reviews.started + 1
             IN  reviews' = [reviews EXCEPT
                    !.started = p,
                    !.running = @ \cup {p},
                    !.handlers = HandlerStep(t, [t EXCEPT !.pc = "insert",
                                                          !.process = p])]
       \/ reviews' = [reviews EXCEPT
             !.handlers = HandlerStep(t, [t EXCEPT !.pc = "done",
                                                   !.status = 500])]
    /\ UNCHANGED <<domain, now, cache, in_progress, reqs, tasks, warmer,
                   adapter, stores, fetcher, host, race, queue>>

\* with reviews_lock: active_reviews[key] = {"process": process,
\* "status": "running", ...}; return 201.
start_review_insert(t) ==
    /\ t.pc = "insert"
    /\ reviews' = [reviews EXCEPT
          !.active_reviews = [has |-> TRUE, process |-> t.process,
                              status |-> "running"],
          !.handlers = HandlerStep(t, [t EXCEPT !.pc = "done",
                                                !.status = 201])]
    /\ UNCHANGED <<domain, now, cache, in_progress, reqs, tasks, warmer,
                   adapter, stores, fetcher, host, race, queue>>

\* The response of start_review is sent.
start_review_return(t) ==
    /\ t.pc = "done"
    /\ reviews' = [reviews EXCEPT !.handlers = @ (-) SetToBag({t})]
    /\ UNCHANGED <<domain, now, cache, in_progress, reqs, tasks, warmer,
                   adapter, stores, fetcher, host, race, queue>>

\* DELETE /api/reviews/<owner>/<repo>/<pr_number>, all under reviews_lock:
\* 404 when the key is not registered; otherwise the registered process is
\* terminated if the entry says "running", and the entry is deleted.
cancel_review ==
    /\ reviews.active_reviews.has
    /\ reviews' = [reviews EXCEPT
          !.running = IF reviews.active_reviews.status = "running"
                      THEN @ \ {reviews.active_reviews.process} ELSE @,
          !.active_reviews = NoReviews.active_reviews]
    /\ UNCHANGED <<domain, now, cache, in_progress, reqs, tasks, warmer,
                   adapter, stores, fetcher, host, race, queue>>

\* A review subprocess ends by itself.
review_process_exits ==
    /\ \E p \in reviews.running :
          reviews' = [reviews EXCEPT !.running = @ \ {p}]
    /\ UNCHANGED <<domain, now, cache, in_progress, reqs, tasks, warmer,
                   adapter, stores, fetcher, host, race, queue>>

\* check_review_status (and the loop of get_reviews), under reviews_lock:
\* an entry that says "running" whose process.poll() gives an exit code
\* becomes "completed" or "failed".
check_review_status ==
    /\ reviews.active_reviews.has
    /\ reviews.active_reviews.status = "running"
    /\ reviews.active_reviews.process \notin reviews.running
    /\ \E s \in {"completed", "failed"} :
          reviews' = [reviews EXCEPT !.active_reviews.status = s]
    /\ UNCHANGED <<domain, now, cache, in_progress, reqs, tasks, warmer,
                   adapter, stores, fetcher, host, race, queue>>

InitReviews ==
    /\ reviews = NoReviews
    /\ fetcher = IdleFetcher
    /\ host = IdleHost
    /\ race = IdleRace
    /\ queue = <<>>
    /\ adapter = IdleAdapter
    /\ stores = NoStores
    /\ domain = "workflow"
    /\ now = StartTime
    /\ cache = [k \in Keys |-> Absent]
    /\ in_progress = {}
    /\ reqs = EmptyBag
    /\ tasks = EmptyBag
    /\ warmer = IdleWarmer("none")

NextReviews ==
    \/ start_review_arrives
    \/ \E t \in Handlers : start_review_check(t)
    \/ \E t \in Handlers : start_review_spawn(t)
    \/ \E t \in Handlers : start_review_insert(t)
    \/ \E t \in Handlers : start_review_return(t)
    \/ cancel_review
    \/ review_process_exits
    \/ check_review_status

SpecReviews == InitReviews /\ [][NextReviews]_vars

----------------------------------------------------------------------------
(* The merge_queue table: its rows in rowid order, each a pull request with
   its position *)

\* The pull requests a call can name.
PRs == 1..MaxPRs

\* The order lists reorder_queue can be given: any list of pull requests,
\* partial, with repetitions or with pull requests that are not queued.
Orders == UNION {[1..n -> PRs] : n \in 0..MaxOrder}

InQueue(q, pr) == \E i \in 1..Len(q) : q[i].pr = pr

\* SELECT COALESCE(MAX(position), 0) + 1
NextPosition(q) ==
    IF q = <<>> THEN 1
    ELSE (CHOOSE m \in {q[i].position : i \in 1..Len(q)} :
             \A i \in 1..Len(q) : q[i].position <= m) + 1

\* DELETE FROM merge_queue WHERE pr_number = ? AND repo = ?
RECURSIVE Delete(_, _)
Delete(q, pr) ==
    IF q = <<>> THEN <<>>
    ELSE IF Head(q).pr = pr THEN Delete(Tail(q), pr)
    ELSE <<Head(q)>> \o Delete(Tail(q), pr)

\* UPDATE merge_queue SET position = (SELECT COUNT(*) FROM merge_queue AS
\* mq2 WHERE mq2.position <= merge_queue.position): SQLite updates the rows
\* one at a time in rowid order, and the subquery of a row reads the
\* positions the rows before it have already been given.
RECURSIVE ReorderFrom(_, _)
ReorderFrom(q, i) ==
    IF i > Len(q) THEN q
    ELSE ReorderFrom(
            [q EXCEPT ![i].position =
                Cardinality({j \in 1..Len(q) : q[j].position <= q[i].position})],
            i + 1)

_reorder_positions(q) == ReorderFrom(q, 1)

\* for position, item in enumerate(order, start=1): UPDATE merge_queue SET
\* position = ? WHERE pr_number = ? AND repo = ?
RECURSIVE SetPositions(_, _, _)
SetPositions(q, order, position) ==
    IF position > Len(order) THEN q
    ELSE SetPositions(
            [i \in 1..Len(q) |->
                IF q[i].pr = order[position]
                THEN [q[i] EXCEPT !.position = position] ELSE q[i]],
            order, position + 1)

\* get_queue: SELECT * FROM merge_queue ORDER BY position ASC, as the set of
\* lists the query can return (rows with equal positions come in any order).
get_queue ==
    {s \in [1..Len(queue) -> 1..Len(queue)] :
        /\ \A i, j \in 1..Len(queue) : i # j => s[i] # s[j]
        /\ \A i, j \in 1..Len(queue) :
              i < j => queue[s[i]].position <= queue[s[j]].position}

\* add_to_queue: ValueError for a pull request already queued, else a new
\* row (the highest rowid) at MAX(position) + 1.
add_to_queue ==
    /\ \E pr \in PRs :
          /\ ~InQueue(queue, pr)
          /\ queue' = Append(queue, [pr |-> pr, position |-> NextPosition(queue)])
    /\ UNCHANGED <<domain, now, cache, in_progress, reqs, tasks, warmer,
                   adapter, stores, fetcher, host, race, reviews>>

\* remove_from_queue: the row is deleted and, if one was, the positions are
\* renumbered.
remove_from_queue ==
    /\ \E pr \in PRs :
          /\ InQueue(queue, pr)
          /\ queue' = _reorder_positions(Delete(queue, pr))
    /\ UNCHANGED <<domain, now, cache, in_progress, reqs, tasks, warmer,
                   adapter, stores, fetcher, host, race, reviews>>

\* reorder_queue(order): the listed rows get their index in the list, the
\* others keep their position.
reorder_queue ==
    /\ \E order \in Orders : queue' = SetPositions(queue, order, 1)
    /\ UNCHANGED <<domain, now, cache, in_progress, reqs, tasks, warmer,
                   adapter, stores, fetcher, host, race, reviews>>

InitQueue ==
    /\ queue = <<>>
    /\ fetcher = IdleFetcher
    /\ host = IdleHost
    /\ race = IdleRace
    /\ reviews = NoReviews
    /\ adapter = IdleAdapter
    /\ stores = NoStores
    /\ domain = "workflow"
    /\ now = StartTime
    /\ cache = [k \in Keys |-> Absent]
    /\ in_progress = {}
    /\ reqs = EmptyBag
    /\ tasks = EmptyBag
    /\ warmer = IdleWarmer("none")

NextQueue ==
    \/ add_to_queue
    \/ remove_from_queue
    \/ reorder_queue

SpecQueue == InitQueue /\ [][NextQueue]_vars

----------------------------------------------------------------------------
(* Claims *)

\* A request that has answered.
Answered(t) == t.pc = "done" /\ t.resp.status = 200

\* C1.  Single-flight: concurrent non-force requests that read the same
\* cached, stale entry of a key start at most one background refresh for it:
\* no two request handlers running at the same time have both started a
\* thread for the same key after reading the same stale row.
C1_SingleFlight ==
    \A t \in Requests, u \in Requests :
        ( /\ t.launched /\ u.launched
          /\ ~t.force /\ ~u.force
          /\ t.key = u.key
          /\ t.cached.has /\ t.is_stale /\ u.is_stale
          /\ u.cached = t.cached )
        => (t = u /\ CopiesIn(t, reqs) = 1)

\* The refreshes of key k that have fetched and not yet finished their save.
\* (A thread that is still at its fetch is in flight too; counting only
\* those past it makes every state counted a state of two refreshes in
\* flight whatever the fetch's duration.)
InFlight(k) ==
    LET saving == {t \in Tasks : t.key = k /\ t.pc = "save"}
        sum[S \in SUBSET saving] ==
            IF S = {} THEN 0
            ELSE LET x == CHOOSE y \in S : TRUE
                 IN  CopiesIn(x, tasks) + sum[S \ {x}]
    IN  sum[saving]
        + (IF warmer.pc = "save" /\ warmer.key = k THEN 1 ELSE 0)

\* C2.  Mutual exclusion: for each key at most one refresh is in flight,
\* background refreshes and the startup warmer counted together.
C2_MutualExclusion == \A k \in Keys : InFlight(k) <= 1

\* C3.  Ticket lifetime: while a refresh that inserted the key into the
\* in-progress set is running, the key is in the set (nobody else removes
\* it).  Every background thread is started by the lock section that
\* inserted its key; the warmer inserted it when acquired is true.
C3_TicketLifetime ==
    /\ \A t \in Tasks : t.key \in in_progress
    /\ (warmer.pc \in {"fetch", "save", "finally"} /\ warmer.acquired)
          => warmer.key \in in_progress

\* C4.  Ticket release: every key inserted into the in-progress set is
\* removed again, on every path after the insertion.  Only the finally
\* clause of a refresh removes a key, so a key in the set must have a
\* refresh that is still to reach its finally clause; a key in the set with
\* no such refresh stays there for good.
C4_TicketReleased ==
    \A k \in in_progress :
        \/ \E t \in Tasks : t.key = k
        \/ warmer.pc \in {"fetch", "save", "finally"} /\ warmer.key = k

\* A step of a refresh of key k (background thread or warmer) that fetched
\* no data and is past its fetch.
EmptyRefreshStep(k) ==
    \/ \E t \in Tasks : /\ t.key = k /\ t.pc = "save" /\ t.data = 0
                        /\ CopiesIn(t, tasks') < CopiesIn(t, tasks)
    \/ /\ warmer.pc = "save" /\ warmer.key = k /\ warmer.data = 0
       /\ warmer' # warmer

\* C5.  No poisoning: a refresh that obtained no data leaves an existing
\* cache entry as it was, payload and updated_at.
C5_NoPoisoning ==
    [][\A k \in Keys : (cache[k].has /\ EmptyRefreshStep(k))
                          => cache'[k] = cache[k]]_vars

\* A step of a background refresh whose fetch or save raised: the step that
\* raises, or its finally clause.
FailedRefreshStep ==
    \E t \in Tasks \cup BagToSet(tasks') :
        t.raised /\ CopiesIn(t, tasks') # CopiesIn(t, tasks)

\* C6.  A background refresh whose fetch or save raises leaves the cache as
\* it was, changes no request's response, and an entry that was stale is
\* still stale for the next request.
C6_FailedRefreshKeepsCache ==
    [][FailedRefreshStep
          => /\ cache' = cache
             /\ reqs' = reqs
             /\ \A k \in Keys : is_stale(k) => is_stale(k)']_vars

\* A background refresh has raised while the entry of its key is stale.
C6_Witness ==
    \E t \in Tasks : t.raised /\ cache[t.key].has /\ is_stale(t.key)

\* C7.  Stale-branch metadata: a non-force response served from the cache
\* reports refreshing = true exactly when it reports stale = true.
C7_StaleIffRefreshing ==
    \A t \in Requests :
        (Answered(t) /\ ~t.force /\ t.resp.cached)
        => (t.resp.stale <=> t.resp.refreshing)

\* C8.  CachedFresh frame: a non-force request that read a cached, fresh
\* entry answers with the stored payload, has fetched nothing, written
\* nothing, inserted no key into the in-progress set and started no thread.
C8_CachedFreshFrame ==
    \A t \in Requests :
        (t.pc = "done" /\ ~t.force /\ t.cached.has /\ ~t.is_stale)
        => /\ t.resp.status = 200
           /\ t.resp.payload = (IF domain = "lifecycle" THEN t.data
                                ELSE t.cached.data)
           /\ t.fetches = 0
           /\ t.writes = 0
           /\ ~t.ticket
           /\ ~t.launched

\* A request has answered from a fresh entry while a refresh of the key was
\* running.
C8_Witness ==
    \E t \in Requests :
        /\ Answered(t) /\ ~t.force /\ t.cached.has /\ ~t.is_stale
        /\ t.resp.payload # 0
        /\ t.key \in in_progress

\* C9.  NoCache branch: a non-force request that found no entry fetches
\* exactly once, inserts no key, starts no thread, and reports cached =
\* false and refreshing = false; a thread is started only by a request that
\* read a cached, stale entry.
C9_NoCacheBranch ==
    /\ \A t \in Requests :
          (Answered(t) /\ ~t.force /\ ~t.cached.has)
          => /\ t.fetches = 1
             /\ ~t.ticket /\ ~t.launched
             /\ ~t.resp.cached /\ ~t.resp.refreshing
    /\ \A t \in Requests : t.launched => (t.cached.has /\ t.is_stale)

\* C10.  NoCache save rule: a non-force request that found no entry and
\* fetched writes the cache if and only if the fetch returned data.
C10_NoCacheSaveRule ==
    \A t \in Requests :
        (Answered(t) /\ ~t.force /\ ~t.cached.has /\ t.fetches = 1)
        => (t.writes > 0 <=> t.data # 0)

\* C11.  Force bypass: in each of the five domains a request with
\* refresh=true that has answered has made a synchronous fetch, and has
\* written the cache when the fetch returned data.
C11_ForceBypass ==
    \A t \in Requests :
        (Answered(t) /\ t.force)
        => /\ t.fetches = 1
           /\ t.data # 0 => t.writes = 1

\* C12.  Force refresh with no data: the save step of a request with
\* refresh=true whose fetch returned no data leaves an existing cache entry
\* as it was, payload and updated_at.  (The lifecycle routes read no refresh
\* parameter and are left out.)
C12_ForceEmptyKeepsEntry ==
    [][\A t \in Requests :
          ( /\ domain # "lifecycle"
            /\ t.force /\ t.pc = "save" /\ t.data = 0
            /\ cache[t.key].has
            /\ CopiesIn(t, reqs') < CopiesIn(t, reqs) )
          => cache'[t.key] = cache[t.key]]_vars

\* C13.  Foreground failure is an error: a non-force request that found no
\* entry and whose fetch failed (gh missing, or every gh call exiting with
\* failure) answers with a non-2xx status and has written no cache entry.
C13_ForegroundFailure ==
    \A t \in Requests :
        (t.pc = "done" /\ ~t.force /\ ~t.cached.has /\ t.failed)
        => /\ t.resp.status >= 400
           /\ t.writes = 0

\* C14.  A non-force request that read a cached, stale entry answers 200
\* with the payload it read from the cache, whatever the refresh it starts
\* or finds running does.
C14_StaleAlwaysServed ==
    \A t \in Requests :
        (t.pc = "done" /\ ~t.force /\ t.cached.has /\ t.is_stale)
        => /\ t.resp.status = 200
           /\ t.resp.payload = (IF domain = "lifecycle" THEN t.data
                                ELSE t.cached.data)

\* C15.  Staleness boundary: is_stale is true when the key has no entry,
\* false when the entry's age (now - updated_at) equals the TTL, true when
\* the age is above the TTL and false when it is below.
C15_StalenessBoundary ==
    \A k \in Keys :
        LET e == cache[k]
            age == now - e.updated_at
        IN  /\ ~e.has => is_stale(k)
            /\ (e.has /\ age = TtlTicks) => ~is_stale(k)
            /\ (e.has /\ age > TtlTicks) => is_stale(k)
            /\ (e.has /\ age < TtlTicks) => ~is_stale(k)

\* A request has been answered "not stale" from an entry that is exactly one
\* TTL old.
C15_Witness ==
    \E t \in Requests :
        /\ Answered(t) /\ t.resp.cached /\ ~t.resp.stale
        /\ cache[t.key] = t.cached
        /\ now - t.cached.updated_at = TtlTicks

\* C16.  Monotonic freshness: no step (a save by a request handler, a
\* background refresh or the startup warmer) lowers the updated_at of an
\* entry.
C16_MonotonicFreshness ==
    [][\A k \in Keys :
          (cache[k].has /\ cache'[k].has)
          => cache'[k].updated_at >= cache[k].updated_at]_vars

\* The entry a request read has since been overwritten by a later save.
C16_Witness ==
    \E t \in Requests :
        /\ t.cached.has /\ cache[t.key].has
        /\ cache[t.key].updated_at > t.cached.updated_at

\* The upstream answered 202 to every probe of the call.
AllPending(a) ==
    \A i \in 1..Len(a.log) :
        a.log[i].call = "probe" /\ a.log[i].outcome = "pending"

\* C17.  Retry on pending: a call with max_retries = N >= 1 that met a 202
\* on every attempt has, when it ends, made exactly N attempts, slept
\* retry_delay exactly N - 1 times, and returns [] without raising.
C17_RetryOnPending ==
    (adapter.pc = "done" /\ adapter.max_retries >= 1 /\ AllPending(adapter))
    => /\ adapter.attempts = adapter.max_retries
       /\ adapter.sleeps = adapter.max_retries - 1
       /\ adapter.elapsed = (adapter.max_retries - 1) * adapter.retry_delay
       /\ adapter.result = "empty"

\* A call with the largest max_retries has ended after a 202 on every
\* attempt.
C17_Witness ==
    /\ adapter.pc = "done" /\ adapter.max_retries = MaxRetries
    /\ AllPending(adapter) /\ Len(adapter.log) = MaxRetries

\* C18.  Bounded retry: whatever the upstream does, a call makes at most
\* max_retries attempts and at most max_retries - 1 sleeps, has slept fewer
\* times than it has attempted when it ends (no sleep after the last
\* attempt), and with max_retries = 0 returns [] without an upstream call.
C18_BoundedRetry ==
    LET a == adapter
    IN  /\ a.attempts <= a.max_retries
        /\ a.calls <= 2 * a.max_retries
        /\ a.max_retries >= 1 => a.sleeps <= a.max_retries - 1
        /\ a.max_retries = 0 => (a.sleeps = 0 /\ a.calls = 0)
        /\ a.elapsed = a.sleeps * a.retry_delay
        /\ (a.pc = "done" /\ a.attempts > 0) => a.sleeps < a.attempts
        /\ (a.pc = "done" /\ a.max_retries = 0) => a.result = "empty"

\* A call has used all its attempts and all its sleeps on an upstream that
\* did not only answer 202.
C18_Witness ==
    /\ adapter.pc = "done"
    /\ adapter.attempts = MaxRetries
    /\ adapter.sleeps = MaxRetries - 1
    /\ ~AllPending(adapter)

\* The last upstream call of the adapter failed outright: gh missing, or
\* the data call exiting with failure.
HardFailure(a) ==
    /\ a.log # <<>>
    /\ LET l == a.log[Len(a.log)]
       IN  \/ l.outcome = "gh_missing"
           \/ l.call = "data" /\ l.outcome = "cmd_fail"

\* C19.  Retry on hard failure: after an upstream call that failed outright,
\* in the probe or in the data call, the adapter sleeps and retries when
\* attempts remain and returns [] when none remain; it never raises.
C19_RetryOnHardFailure ==
    /\ adapter.result # "raised"
    /\ (HardFailure(adapter) /\ adapter.pc \in {"sleep", "done"})
          => IF adapter.attempt < adapter.max_retries - 1
             THEN adapter.pc = "sleep"
             ELSE adapter.pc = "done" /\ adapter.result = "empty"

\* C20.  clear-cache empties every store: after a clear_cache step no key
\* has an entry in any of the five tables (get_cached / get_stats returns
\* nothing and is_stale is true).
C20_ClearCacheClearsAll ==
    [][clear_cache_stores
          => \A d \in Domains, k \in Keys : ~stores'[d][k].has]_vars

\* C21.  Startup warmer coverage: in each of the five domains a cache entry
\* that is stale has a startup warmer thread of its domain to refresh it,
\* whether or not a request arrives.
C21_StartupWarmerCoverage ==
    (\E k \in Keys : cache[k].has /\ is_stale(k)) => warmer.pc # "none"

C25_StaleGetsRefreshed ==
    [][\A t \in Requests, u \in Requests' :
          ( /\ t.pc # "done" /\ u.pc = "done" /\ ReqStep(t, u)
            /\ ~u.force /\ u.cached.has /\ u.is_stale
            /\ u.resp.status = 200
            /\ u.key \notin in_progress )
          => u.launched]_vars

\* C26.  Snapshot consistency: a cached response says stale=false only when
\* the entry it serves had an age within the TTL at some time since the
\* process started, and stale=true only when that entry's age exceeds the
\* TTL.
C26_SnapshotConsistency ==
    \A t \in Requests :
        (Answered(t) /\ t.resp.cached)
        => /\ ~t.resp.stale => StartTime - t.cached.updated_at <= TtlTicks
           /\ t.resp.stale => now - t.cached.updated_at > TtlTicks

\* The last upstream call of the adapter was a data call that succeeded,
\* with data or with an empty payload.
SuccessfulResponse(a) ==
    /\ a.log # <<>>
    /\ LET l == a.log[Len(a.log)]
       IN  l.call = "data" /\ l.outcome \in {"data", "empty"}

\* C24.  The adapter retries only while pending or failed: once an attempt
\* of fetch_github_stats_api has got a successful response that is not
\* pending, the call has ended at that attempt with the parsed payload as
\* its result, also when that payload is empty; there is no further sleep
\* and no further attempt.
C24_SuccessEndsCall ==
    SuccessfulResponse(adapter)
    => /\ adapter.pc = "done"
       /\ adapter.result = adapter.log[Len(adapter.log)].outcome

\* C22.  Fetcher sentinel: a fetcher that has returned (not raised) gave its
\* "no data" value (None or the empty list) exactly when none of its upstream
\* sub-calls returned data, each having returned empty or failed; otherwise
\* it gave a payload holding the empty default in the place of every
\* sub-call that returned no data.
C22_FetcherSentinel ==
    (fetcher.pc = "done" /\ fetcher.result.kind # "raised")
    => LET none == \A i \in 1..Len(fetcher.subs) : fetcher.subs[i] # "ok"
       IN  /\ fetcher.result.kind \in {"None", "empty_list"} <=> none
           /\ ~none => /\ fetcher.result.kind = "payload"
                       /\ fetcher.result.parts = Parts(fetcher.subs)

\* C27.  Same time base: the staleness test ages a row on the clock that
\* stamped it: a row is stale exactly when more than its TTL has elapsed
\* since the save, so it is fresh right after the save for every TTL > 0,
\* whatever the host's UTC offset.
C27_SameTimeBase ==
    host.has => (host_is_stale(host) <=> host.utc - host.updated_at > host.ttl)

\* C28.  Data never goes backward: when the background refresh and the
\* forced request of a key have both saved, the row holds the payload of
\* the one that fetched later from upstream.
C28_NeverBackward ==
    (race.background.pc = "saved" /\ race.force.pc = "saved")
    => race.row = (IF race.background.seq > race.force.seq
                   THEN race.background.data ELSE race.force.data)

\* C29.  At most one review per PR: at no time are two review subprocesses
\* of the key running, and every running subprocess is either the one
\* registered in active_reviews or held by a start_review handler that is
\* about to register it.
C29_OneReviewPerPR ==
    /\ Cardinality(reviews.running) <= 1
    /\ \A p \in reviews.running :
          \/ reviews.active_reviews.has /\ reviews.active_reviews.process = p
          \/ \E t \in Handlers : t.pc = "insert" /\ t.process = p

\* C30.  Merge-queue positions: after any sequence of add_to_queue,
\* remove_from_queue and reorder_queue, with any order list, the positions
\* of the n queued items are pairwise distinct and are exactly 1..n, so that
\* get_queue has one list to return.
C30_QueuePositions ==
    /\ {queue[i].position : i \in 1..Len(queue)} = 1..Len(queue)
    /\ Cardinality(get_queue) = 1

====
